---- MODULE Spec2Model ----
(***************************************************************************)
(* Model of thread_local_heap.cc (MrMabulous/ThreadLocalHeap).              *)
(*                                                                         *)
(* Two specifications share this module.                                   *)
(*                                                                         *)
(*   Spec      the lifetime protocol of PrivateHeap under native threads.  *)
(*             The source takes no lock anywhere, so every access of a     *)
(*             PrivateHeap field is a step of its own: allocation_count_++ *)
(*             and allocation_count_-- are a load and a store, and the     *)
(*             checks of empty() and marked_for_destruction_ are loads     *)
(*             that other threads' steps may precede or follow.            *)
(*                                                                         *)
(*   SpecAddr  one thread calling the four replaced operators, each call   *)
(*             one action, with addresses, the size type's width, the      *)
(*             allocation header and the recovery slot of over-aligned     *)
(*             blocks.                                                     *)
(***************************************************************************)
EXTENDS Integers, FiniteSets, Sequences, TLC

\* ------------------------------------------------------------------ bounds
NThreads == 2
MaxBlocks == 2
\* Width of std::size_t and of an address, scaled down from 64.
SizeBits == 24
\* Number of blocks the single thread of SpecAddr holds at a time.
MaxLive == 1
\* Largest allocation_count_ of the PrivateHeap of SpecHeap.
MaxCount == 6

\* ------------------------------------------------------- program constants
\* sizeof(PrivateHeap*) and sizeof(void*) of the x64 build the file requires.
PtrSize == 8
\* __STDCPP_DEFAULT_NEW_ALIGNMENT__ of the x64 build.
DefaultNewAlignment == 16

SizeMod == 2 ^ SizeBits

heap_ptr_ofst == IF PtrSize > DefaultNewAlignment THEN PtrSize ELSE DefaultNewAlignment

\* The PrivateHeap* stored in a header: 0 is &process_private_heap_, t > 0 the
\* PrivateHeap of thread t, NullHeap a null pointer.
NullHeap == -1
ProcessHeap == 0

Threads == 1 .. NThreads
Heaps == 0 .. NThreads
UserBlocks == 1 .. MaxBlocks
\* The block holding the PrivateHeap object of thread t (new PrivateHeap()).
MetaBlock(t) == MaxBlocks + t
Blocks == 1 .. (MaxBlocks + NThreads)

\* The address HeapAlloc returns for block b: distinct per block, 16-aligned.
HeapAllocAddr(b) == 64 * b
BlockAt(addr) == addr \div 64

VARIABLES
  \* ---- Spec
  phase,   \* per thread: "pre" | "ctor" | "ready" | "exited" (thread_local_heap_)
  pc,      \* per thread: the step its current call is at
  tgt,     \* per thread: the PrivateHeap* the call works on
  cur,     \* per thread: the pointer the call works on
  tmp,     \* per thread: the value of allocation_count_ it loaded
  heap,    \* per PrivateHeap: allocation_count_, marked_for_destruction_, ...
  blk,     \* per block: its state, the heap that served it, its header
  uaf,     \* a field of a deleted PrivateHeap was read or written
  exited,  \* static destruction has run
  \* ---- SpecAddr
  sReady, sHeap, sBlocks, sMem, sPtrs, res,
  \* ---- SpecHeap
  ph       \* one PrivateHeap object and the last call made on it

cvars == <<phase, pc, tgt, cur, tmp, heap, blk, uaf, exited>>
svars == <<sReady, sHeap, sBlocks, sMem, sPtrs, res>>
hvars == <<ph>>
vars == <<phase, pc, tgt, cur, tmp, heap, blk, uaf, exited,
          sReady, sHeap, sBlocks, sMem, sPtrs, res, ph>>

\* ==================================================================== Spec

\* PrivateHeap::PrivateHeap: the fields after construction.
PrivateHeapCtor == [count |-> 0, marked |-> FALSE, destroys |-> 0, region |-> "live"]

\* use_process_heap_ of heap h.
use_process_heap(h) == h = ProcessHeap

\* ready_ of thread t's handle: set by the constructor, never reset.
ready(t) == phase[t] \in {"ready", "exited"}

\* ThreadLocalHeap::alloc: the heap an allocation of thread t is served by.
ResolveHeapShared(t) == IF ready(t) THEN 1 ELSE ProcessHeap
ResolveHeap(t) == IF ready(t) THEN t ELSE ProcessHeap

\* ThreadLocalHeap::free: the heap read from the header before ptr.
FreeTargetOwn(t, ptr) == ResolveHeap(t)
FreeTarget(t, ptr) == blk[BlockAt(ptr - heap_ptr_ofst)].hdr

\* ThreadLocalHeap::free: the address handed to PrivateHeap::free.
ActualPtr(ptr) == ptr - heap_ptr_ofst

\* A block HeapAlloc has returned and HeapFree has not yet released.
Unfreed(b) == blk[b].st \in {"os", "held", "freeing"}

\* The step reads or writes a field of PrivateHeap h after delete this.
Touch(h) == heap[h].destroys > 0

InitC ==
  /\ phase = [t \in Threads |-> "pre"]
  /\ pc = [t \in Threads |-> "idle"]
  /\ tgt = [t \in Threads |-> 0]
  /\ cur = [t \in Threads |-> 0]
  /\ tmp = [t \in Threads |-> 0]
  /\ heap = [h \in Heaps |->
               IF h = ProcessHeap THEN PrivateHeapCtor
               ELSE [count |-> 0, marked |-> FALSE, destroys |-> 0, region |-> "none"]]
  /\ blk = [b \in Blocks |-> [st |-> "none", heap |-> 0, hdr |-> NullHeap]]
  /\ uaf = FALSE
  /\ exited = FALSE

\* A call of thread t returns: its locals are dead.
Return(t) ==
  /\ pc' = [pc EXCEPT ![t] = "idle"]
  /\ tgt' = [tgt EXCEPT ![t] = 0]
  /\ cur' = [cur EXCEPT ![t] = 0]
  /\ tmp' = [tmp EXCEPT ![t] = 0]

\* The block a HeapAlloc on behalf of thread t gets: the PrivateHeap object in
\* the constructor, else the first unused block.
NextBlock(t, ctor) ==
  IF ctor THEN MetaBlock(t)
  ELSE CHOOSE b \in UserBlocks :
         blk[b].st = "none" /\ \A c \in UserBlocks : blk[c].st = "none" => b <= c

\* PrivateHeap::alloc of thread t on heap h, up to HeapAlloc returning a block.
PrivateHeapAllocOk(t, h, ctor) ==
  LET b == NextBlock(t, ctor)
  IN /\ blk' = [blk EXCEPT ![b] = [st |-> "os", heap |-> h, hdr |-> NullHeap]]
     /\ cur' = [cur EXCEPT ![t] = HeapAllocAddr(b)]
     /\ tgt' = [tgt EXCEPT ![t] = h]
     /\ uaf' = (uaf \/ Touch(h))
     /\ pc' = [pc EXCEPT ![t] = "a_read"]

\* ---- thread_local ThreadLocalHeap thread_local_heap_: the constructor starts
\* with new PrivateHeap(), an operator new while ready_ is still false, served
\* by process_private_heap_.
CtorBegin(t) ==
  /\ ~exited /\ pc[t] = "idle" /\ phase[t] = "pre"
  /\ phase' = [phase EXCEPT ![t] = "ctor"]
  /\ PrivateHeapAllocOk(t, ResolveHeap(t), TRUE)
  /\ UNCHANGED <<tmp, heap, exited>>

\* ---- new PrivateHeap() in the constructor: HeapAlloc returns NULL, new_impl
\* throws std::bad_alloc and the handle stays unconstructed.
CtorFail(t) ==
  /\ ~exited /\ pc[t] = "idle" /\ phase[t] = "pre"
  /\ uaf' = (uaf \/ Touch(ResolveHeap(t)))
  /\ UNCHANGED <<phase, pc, tgt, cur, tmp, heap, blk, exited>>

\* ---- operator new -> new_impl -> ThreadLocalHeap::alloc -> PrivateHeap::alloc:
\* the heap is chosen by ready_ and HeapAlloc(heap_handle_, 0, bytes) succeeds.
NewBegin(t) ==
  /\ ~exited /\ pc[t] = "idle"
  /\ \E b \in UserBlocks : blk[b].st = "none"
  /\ heap[ResolveHeap(t)].region = "live"
  /\ PrivateHeapAllocOk(t, ResolveHeap(t), FALSE)
  /\ UNCHANGED <<phase, tmp, heap, exited>>

\* ---- the same call when HeapAlloc returns NULL (the region is exhausted, or
\* it has been destroyed): PrivateHeap::alloc returns NULL, ThreadLocalHeap::alloc
\* returns it and new_impl throws std::bad_alloc.
NewFail(t) ==
  /\ ~exited /\ pc[t] = "idle"
  /\ uaf' = (uaf \/ Touch(ResolveHeap(t)))
  /\ UNCHANGED <<phase, pc, tgt, cur, tmp, heap, blk, exited>>

\* ---- allocation_count_++ : the load.
AllocLoadCount(t) ==
  /\ ~exited /\ pc[t] = "a_read"
  /\ tmp' = [tmp EXCEPT ![t] = heap[tgt[t]].count]
  /\ uaf' = (uaf \/ Touch(tgt[t]))
  /\ pc' = [pc EXCEPT ![t] = "a_write"]
  /\ UNCHANGED <<phase, tgt, cur, heap, blk, exited>>

\* The header ThreadLocalHeap::alloc writes into the block served by heap h.
HeaderNull(h) == NullHeap
HeaderOf(h) == h

\* ---- allocation_count_++ : the store; then ThreadLocalHeap::alloc writes the
\* header and returns ptr + heap_ptr_ofst().  In the constructor PrivateHeap's
\* own constructor follows (HeapCreate), then private_heap_ and ready_ are set.
AllocStoreCount(t) ==
  /\ ~exited /\ pc[t] = "a_write"
  /\ LET h == tgt[t]
         b == BlockAt(cur[t])
         counted == [heap EXCEPT ![h].count = (tmp[t] + 1) % SizeMod]
     IN /\ heap' = IF phase[t] = "ctor"
                   THEN [counted EXCEPT ![t] = PrivateHeapCtor]
                   ELSE counted
        /\ blk' = [blk EXCEPT ![b].st = "held", ![b].hdr = HeaderOf(h)]
        /\ uaf' = (uaf \/ Touch(h))
  /\ phase' = [phase EXCEPT ![t] = IF @ = "ctor" THEN "ready" ELSE @]
  /\ Return(t)
  /\ UNCHANGED <<exited>>

\* HeapFree(heap_handle_, 0, ptr) is given a block of that heap's live region.
HeapFreeValid(h, ptr) ==
  /\ BlockAt(ptr) \in Blocks /\ ptr = HeapAllocAddr(BlockAt(ptr))
  /\ Unfreed(BlockAt(ptr))
  /\ blk[BlockAt(ptr)].heap = h
  /\ heap[h].region = "live"

\* ThreadLocalHeap::free(ptr) by thread t, up to the return of HeapFree in
\* PrivateHeap::free.  `blks` is blk with the caller's bookkeeping done.  Given
\* anything else than a live block of the heap's live region, HeapFree's result
\* is not defined: it may report success or failure.
ThreadLocalHeapFree(t, ptr, blks) ==
  LET h == FreeTarget(t, ptr)
      actual == ActualPtr(ptr)
  IN IF h = NullHeap
     THEN \* std::free(actual_ptr)
          /\ blk' = blks /\ uaf' = uaf /\ Return(t)
     ELSE LET valid == HeapFreeValid(h, actual)
          IN \E success \in (IF valid THEN {TRUE} ELSE BOOLEAN) :
               /\ blk' = IF valid
                         THEN [blks EXCEPT ![BlockAt(actual)].st = "released"]
                         ELSE blks
               /\ uaf' = (uaf \/ Touch(h))
               /\ IF success
                  THEN /\ pc' = [pc EXCEPT ![t] = "f_read"]
                       /\ tgt' = [tgt EXCEPT ![t] = h]
                       /\ cur' = [cur EXCEPT ![t] = actual]
                       /\ tmp' = tmp
                  ELSE Return(t)

\* ---- operator delete -> delete_impl -> ThreadLocalHeap::free of a block some
\* operator new returned and no delete was given yet, by any thread.
DeleteBegin(t, b) ==
  /\ ~exited /\ pc[t] = "idle"
  /\ b \in UserBlocks /\ blk[b].st = "held"
  /\ ThreadLocalHeapFree(t, HeapAllocAddr(b) + heap_ptr_ofst,
                         [blk EXCEPT ![b].st = "freeing"])
  /\ UNCHANGED <<phase, heap, exited>>

\* ---- allocation_count_-- : the load.
FreeLoadCount(t) ==
  /\ ~exited /\ pc[t] = "f_read"
  /\ tmp' = [tmp EXCEPT ![t] = heap[tgt[t]].count]
  /\ uaf' = (uaf \/ Touch(tgt[t]))
  /\ pc' = [pc EXCEPT ![t] = "f_write"]
  /\ UNCHANGED <<phase, tgt, cur, heap, blk, exited>>

\* ---- allocation_count_-- : the store.
FreeStoreCount(t) ==
  /\ ~exited /\ pc[t] = "f_write"
  /\ heap' = [heap EXCEPT ![tgt[t]].count = (tmp[t] - 1) % SizeMod]
  /\ uaf' = (uaf \/ Touch(tgt[t]))
  /\ pc' = [pc EXCEPT ![t] = "f_check"]
  /\ UNCHANGED <<phase, tgt, cur, tmp, blk, exited>>

\* PrivateHeap::free: marked_for_destruction_ && !use_process_heap_ && empty().
FreeDestroys(h) == heap[h].marked /\ ~use_process_heap(h) /\ heap[h].count = 0

\* ---- PrivateHeap::free: the check after the decrement.
FreeCheck(t) ==
  /\ ~exited /\ pc[t] = "f_check"
  /\ uaf' = (uaf \/ Touch(tgt[t]))
  /\ IF FreeDestroys(tgt[t])
     THEN /\ pc' = [pc EXCEPT ![t] = "d_destroy"]
          /\ UNCHANGED <<tgt, cur, tmp>>
     ELSE Return(t)
  /\ UNCHANGED <<phase, heap, blk, exited>>

\* ---- delete this: ~PrivateHeap calls HeapDestroy(heap_handle_), then operator
\* delete(this) frees the object through its own header.
DeleteThis(t) ==
  /\ ~exited /\ pc[t] = "d_destroy"
  /\ LET h == tgt[t]
         m == MetaBlock(h)
     IN /\ heap' = [heap EXCEPT ![h].destroys = @ + 1, ![h].region = "destroyed"]
        /\ ThreadLocalHeapFree(t, HeapAllocAddr(m) + heap_ptr_ofst,
                               [blk EXCEPT ![m].st = IF @ = "held" THEN "freeing" ELSE @])
        /\ uaf' = (uaf \/ Touch(h) \/ Touch(FreeTarget(t, HeapAllocAddr(m) + heap_ptr_ofst)))
  /\ UNCHANGED <<phase, exited>>

\* PrivateHeap::mark_for_destruction: empty() && !use_process_heap_.
MarkNeverDestroys(h) == FALSE
MarkDestroys(h) == heap[h].count = 0 /\ ~use_process_heap(h)

\* ---- ThreadLocalHeap::~ThreadLocalHeap: private_heap_->mark_for_destruction(),
\* up to its check.
ExitBegin(t) ==
  /\ ~exited /\ pc[t] = "idle" /\ phase[t] = "ready"
  /\ phase' = [phase EXCEPT ![t] = "exited"]
  /\ tgt' = [tgt EXCEPT ![t] = t]
  /\ uaf' = (uaf \/ Touch(t))
  /\ pc' = [pc EXCEPT ![t] = IF MarkDestroys(t) THEN "d_destroy" ELSE "m_set"]
  /\ UNCHANGED <<cur, tmp, heap, blk, exited>>

\* ---- PrivateHeap::mark_for_destruction: marked_for_destruction_ = true.
MarkSet(t) ==
  /\ ~exited /\ pc[t] = "m_set"
  /\ heap' = [heap EXCEPT ![tgt[t]].marked = TRUE]
  /\ uaf' = (uaf \/ Touch(tgt[t]))
  /\ Return(t)
  /\ UNCHANGED <<phase, blk, exited>>

\* ---- Process exit: process_private_heap_ has static storage, so its
\* destructor ~PrivateHeap runs and calls HeapDestroy(heap_handle_) with the
\* handle GetProcessHeap() returned.  HeapDestroy is not specified for that
\* handle: the region is released or the call is refused.
ProcessExit ==
  /\ ~exited
  /\ \A t \in Threads : pc[t] = "idle"
  /\ exited' = TRUE
  /\ \E released \in BOOLEAN :
       heap' = [heap EXCEPT ![ProcessHeap].destroys = @ + 1,
                            ![ProcessHeap].region = IF released THEN "destroyed" ELSE @]
  /\ UNCHANGED <<phase, pc, tgt, cur, tmp, blk, uaf>>

\* ================================================================ SpecAddr
\* One thread calls operator new, operator delete and their over-aligned forms.
\* A state S of the heaps is a record: ready (ready_ of the thread's handle),
\* heap (the fields of process_private_heap_, 0, and of the thread's
\* PrivateHeap, 1), blocks (the blocks HeapAlloc has returned and HeapFree has
\* not released) and mem (the words written into them, by address).

\* Request sizes, alignments and the addresses HeapAlloc may return (HeapAlloc
\* aligns to 16 on x64).
Sizes == {0, 1, 4095, 2 ^ 20, SizeMod - 48, SizeMod - 40, SizeMod - 1}
Aligns == {8, 16, 32, 64, 4096}
Bases == {16, 4080, 2 ^ 21}
\* sizeof(PrivateHeap): size_t, HANDLE, two bools, padded.
SizeofPrivateHeap == 24

Wrap(x) == x % SizeMod

\* A word of memory: a PrivateHeap* (k = "heap") or a void* (k = "ptr").
HeapWord(h) == [k |-> "heap", v |-> h]
PtrWord(a) == [k |-> "ptr", v |-> a]

\* Memory: the words written, by address.
EmptyMem == [a \in {} |-> PtrWord(0)]
MemPut(m, a, w) == [x \in DOMAIN m \cup {a} |-> IF x = a THEN w ELSE m[x]]

SHeapInit == [count |-> 0, marked |-> FALSE, destroys |-> 0]

SCur == [ready |-> sReady, heap |-> sHeap, blocks |-> sBlocks, mem |-> sMem]

\* What HeapAlloc(heap_handle_, 0, bytes) may return in S: NULL (0), or the
\* base of a range that is inside the address space and overlaps no live block.
Extent(bytes) == IF bytes = 0 THEN 1 ELSE bytes
HeapAllocChoices(S, bytes) ==
  {0} \cup {b \in Bases :
              /\ b + Extent(bytes) <= SizeMod
              /\ \A k \in S.blocks :
                   b + Extent(bytes) <= k.base \/ k.base + Extent(k.size) <= b}

\* PrivateHeap::alloc: allocation_count_ after HeapAlloc returned ptr.
CountAfterAllocAlways(count, ptr) == Wrap(count + 1)
CountAfterAlloc(count, ptr) == IF ptr # 0 THEN Wrap(count + 1) ELSE count

\* ThreadLocalHeap::alloc: the bytes asked of PrivateHeap::alloc.
Overalloc(count) == Wrap(count + heap_ptr_ofst)

\* new_impl(bytes) -> ThreadLocalHeap::alloc -> PrivateHeap::alloc, with `base`
\* what HeapAlloc returns.
NewImpl(S, bytes, base) ==
  LET h == IF S.ready THEN 1 ELSE ProcessHeap
      counted == [S EXCEPT !.heap[h].count = CountAfterAlloc(@, base)]
  IN IF base # 0
     THEN [S |-> [counted EXCEPT
                    !.blocks = @ \cup {[base |-> base, size |-> Overalloc(bytes), heap |-> h]},
                    !.mem = MemPut(@, base, HeapWord(h))],
           ret |-> base + heap_ptr_ofst, threw |-> FALSE, osAlloc |-> 1,
           osFailed |-> FALSE, heap |-> h, base |-> base, unaligned |-> base + heap_ptr_ofst,
           wild |-> FALSE]
     ELSE [S |-> counted, ret |-> 0, threw |-> TRUE, osAlloc |-> 1,
           osFailed |-> TRUE, heap |-> h, base |-> 0, unaligned |-> 0, wild |-> FALSE]

\* std::align(alignment, size, ptr, space): ptr moved up to the next multiple
\* of alignment when size bytes still fit into space, else left as it is.
StdAlignNone(alignment, size, ptr, space) == ptr
StdAlign(alignment, size, ptr, space) ==
  LET rem == ptr % alignment
      off == IF rem = 0 THEN 0 ELSE alignment - rem
  IN IF space < off \/ space - off < size THEN ptr ELSE Wrap(ptr + off)

\* operator new(count, al): the overflow test of align + count + sizeof(void*).
AlignedSizeOverflowsFirstOnly(count, align) == Wrap(align + count) < count
AlignedSizeOverflows(count, align) ==
  \/ Wrap(align + count) < count
  \/ Wrap(Wrap(align + count) + PtrSize) < Wrap(align + count)

\* operator new(count, al): actually_allocating.
ActuallyAllocating(count, align) == Wrap(Wrap(align + count) + PtrSize)

\* The bytes a call asks of HeapAlloc, when it gets that far.
OsRequest(count, al) ==
  IF al <= DefaultNewAlignment THEN Overalloc(count)
  ELSE Overalloc(ActuallyAllocating(count, al))

\* The n bytes at a lie inside the block of `size` bytes at `base`.
InBlock(base, size, a, n) == base <= a /\ a + n <= base + size

\* operator new(count, al), with `base` what HeapAlloc returns.  `wild` tells
\* that the recovery slot was written outside the block HeapAlloc returned.
NewAligned(S, count, al, base) ==
  IF al <= DefaultNewAlignment THEN NewImpl(S, count, base)
  ELSE IF AlignedSizeOverflows(count, al)
  THEN [S |-> S, ret |-> 0, threw |-> TRUE, osAlloc |-> 0, osFailed |-> FALSE,
        heap |-> 0, base |-> 0, unaligned |-> 0, wild |-> FALSE]
  ELSE LET r == NewImpl(S, ActuallyAllocating(count, al), base)
           aligned == StdAlign(al, 0, r.ret, ActuallyAllocating(count, al))
           slot == Wrap(aligned - PtrSize)
       IN IF r.threw THEN r
          ELSE [r EXCEPT !.S.mem = MemPut(@, slot, PtrWord(r.ret)),
                         !.ret = aligned,
                         !.wild = ~InBlock(base, OsRequest(count, al), slot, PtrSize)]

\* PrivateHeap::free(ptr) on heap h.
PrivateHeapFree(S, h, ptr) ==
  LET hit == {k \in S.blocks : k.base = ptr /\ k.heap = h}
  IN IF hit = {}
     THEN [S |-> S, ok |-> FALSE, freedBase |-> 0, freedHeap |-> h]
     ELSE LET k == CHOOSE x \in hit : TRUE
              inside(a) == k.base <= a /\ a < k.base + Extent(k.size)
              c == Wrap(S.heap[h].count - 1)
              destroy == S.heap[h].marked /\ ~use_process_heap(h) /\ c = 0
          IN [S |-> [S EXCEPT
                       !.blocks = @ \ hit,
                       !.mem = [a \in {x \in DOMAIN @ : ~inside(x)} |-> @[a]],
                       !.heap[h].count = c,
                       !.heap[h].destroys = IF destroy THEN @ + 1 ELSE @],
              ok |-> TRUE, freedBase |-> ptr, freedHeap |-> h]

\* A read of an address no block holds a written word at is undefined: the call
\* faults, or goes on with whatever the read gave (`junk`).
ReadWord(S, addr, junk) ==
  IF addr \in DOMAIN S.mem THEN [fault |-> FALSE, w |-> S.mem[addr]]
  ELSE IF junk.k = "fault" THEN [fault |-> TRUE, w |-> PtrWord(0)]
  ELSE [fault |-> FALSE, w |-> junk]
Junk == {[k |-> "fault", v |-> 0], PtrWord(0), HeapWord(NullHeap)}
\* The outcomes to tell apart for a call that reads the addresses `addrs`.
JunkFor(S, addrs) == IF addrs \subseteq DOMAIN S.mem THEN {PtrWord(0)} ELSE Junk

\* delete_impl(ptr) -> ThreadLocalHeap::free(ptr).
DeleteImpl(S, ptr, junk) ==
  IF ptr = 0
  THEN [S |-> S, fault |-> FALSE, osFree |-> 0, ok |-> FALSE, freedBase |-> 0,
        freedHeap |-> 0, reads |-> {}, passed |-> 0]
  ELSE LET actual == Wrap(ptr - heap_ptr_ofst)
           rd == ReadWord(S, actual, junk)
       IN IF rd.fault \/ rd.w.k # "heap"
          THEN [S |-> S, fault |-> TRUE, osFree |-> 0, ok |-> FALSE, freedBase |-> 0,
                freedHeap |-> 0, reads |-> {actual}, passed |-> actual]
          ELSE IF rd.w.v = NullHeap
          THEN \* std::free(actual_ptr)
               [S |-> S, fault |-> FALSE, osFree |-> 0, ok |-> TRUE, freedBase |-> 0,
                freedHeap |-> NullHeap, reads |-> {actual}, passed |-> actual]
          ELSE LET f == PrivateHeapFree(S, rd.w.v, actual)
               IN [S |-> f.S, fault |-> FALSE, osFree |-> 1, ok |-> f.ok,
                   freedBase |-> f.freedBase, freedHeap |-> f.freedHeap,
                   reads |-> {actual}, passed |-> actual]

\* operator delete(ptr, al): the pointer handed on to operator delete(ptr).
Recovered(S, ptr, al, junk) ==
  IF al > DefaultNewAlignment
  THEN LET rd == ReadWord(S, Wrap(ptr - PtrSize), junk)
       IN [fault |-> rd.fault \/ rd.w.k # "ptr", p |-> rd.w.v,
           reads |-> {Wrap(ptr - PtrSize)}]
  ELSE [fault |-> FALSE, p |-> ptr, reads |-> {}]

\* operator delete(ptr, al).
DeleteAligned(S, ptr, al, junk) ==
  LET rc == Recovered(S, ptr, al, junk)
  IN IF rc.fault
     THEN [S |-> S, fault |-> TRUE, osFree |-> 0, ok |-> FALSE, freedBase |-> 0,
           freedHeap |-> 0, reads |-> rc.reads, passed |-> 0, recovered |-> 0]
     ELSE LET d == DeleteImpl(S, rc.p, junk)
          IN [S |-> d.S, fault |-> d.fault, osFree |-> d.osFree, ok |-> d.ok,
              freedBase |-> d.freedBase, freedHeap |-> d.freedHeap,
              reads |-> rc.reads \cup d.reads, passed |-> d.passed, recovered |-> rc.p]

NoGhost == [p |-> 0, al |-> 0, size |-> 0, unaligned |-> 0, base |-> 0, heap |-> 0]

ResInit ==
  [op |-> "none", count |-> 0, al |-> 0, ptr |-> 0, ret |-> 0, threw |-> FALSE,
   fault |-> FALSE, wild |-> FALSE, osFailed |-> FALSE, osAlloc |-> 0, osFree |-> 0, ok |-> FALSE,
   freedBase |-> 0, freedHeap |-> 0, recovered |-> 0, reads |-> {}, g |-> NoGhost,
   pre |-> [ready |-> FALSE, heap |-> [h \in 0 .. 1 |-> SHeapInit], blocks |-> {},
            mem |-> EmptyMem]]

Install(S) ==
  /\ sReady' = S.ready
  /\ sHeap' = S.heap
  /\ sBlocks' = S.blocks
  /\ sMem' = S.mem

\* What the program remembers of a pointer it was given, and what the checks
\* below compare a later delete with.
Ghost(r, count, al) ==
  [p |-> r.ret, al |-> al, size |-> count, unaligned |-> r.unaligned, base |-> r.base,
   heap |-> r.heap]

AfterNew(op, r, count, al) ==
  /\ Install(r.S)
  /\ sPtrs' = IF r.threw THEN sPtrs ELSE sPtrs \cup {Ghost(r, count, al)}
  /\ res' = [ResInit EXCEPT !.op = op, !.count = count, !.al = al, !.ret = r.ret,
                            !.threw = r.threw, !.osFailed = r.osFailed,
                            !.osAlloc = r.osAlloc, !.wild = r.wild, !.pre = SCur]

\* The process goes on: no call has faulted or written outside its block (what
\* follows either is not defined).
Alive == ~res.fault /\ ~res.wild

\* ---- ThreadLocalHeap::ThreadLocalHeap: new PrivateHeap() while ready_ is
\* false, then HeapCreate, private_heap_ and ready_ = true.
SCtor ==
  /\ Alive /\ ~sReady
  /\ \E base \in HeapAllocChoices(SCur, Overalloc(SizeofPrivateHeap)) :
       LET r == NewImpl(SCur, SizeofPrivateHeap, base)
       IN /\ Install([r.S EXCEPT !.ready = ~r.threw,
                                 !.heap[1] = IF r.threw THEN @ ELSE SHeapInit])
          /\ res' = [ResInit EXCEPT !.op = "ctor", !.count = SizeofPrivateHeap,
                                    !.threw = r.threw, !.osFailed = r.osFailed,
                                    !.osAlloc = r.osAlloc, !.pre = SCur]
  /\ UNCHANGED sPtrs

\* ---- operator new(count).
SNew ==
  /\ Alive /\ Cardinality(sPtrs) < MaxLive
  /\ \E count \in Sizes :
       \E base \in HeapAllocChoices(SCur, Overalloc(count)) :
         AfterNew("new", NewImpl(SCur, count, base), count, 0)

\* ---- operator new(count, al).
SNewAligned ==
  /\ Alive /\ Cardinality(sPtrs) < MaxLive
  /\ \E count \in Sizes, al \in Aligns :
       \E base \in HeapAllocChoices(SCur, OsRequest(count, al)) :
         AfterNew("new_aligned", NewAligned(SCur, count, al, base), count, al)

AfterDelete(op, d, ptr, al, g, recovered) ==
  /\ Install(d.S)
  /\ sPtrs' = sPtrs \ {g}
  /\ res' = [ResInit EXCEPT !.op = op, !.ptr = ptr, !.al = al, !.fault = d.fault,
                            !.osFree = d.osFree, !.ok = d.ok, !.freedBase = d.freedBase,
                            !.freedHeap = d.freedHeap, !.recovered = recovered,
                            !.reads = d.reads, !.g = g, !.pre = SCur]

\* ---- operator delete(ptr), of a pointer operator new(count) returned or null.
SDelete ==
  /\ Alive
  /\ \E g \in {q \in sPtrs : q.al = 0} \cup {NoGhost} :
       \E junk \in JunkFor(SCur, DeleteImpl(SCur, g.p, PtrWord(0)).reads) :
       AfterDelete("delete", DeleteImpl(SCur, g.p, junk), g.p, 0, g, g.p)

\* ---- operator delete(ptr, al), of a pointer operator new(count, al) returned
\* with that al, or null with any al.
SDeleteAligned ==
  /\ Alive
  /\ \E g \in {q \in sPtrs : q.al # 0} \cup {[NoGhost EXCEPT !.al = a] : a \in Aligns} :
       \E junk \in JunkFor(SCur, DeleteAligned(SCur, g.p, g.al, PtrWord(0)).reads) :
       LET d == DeleteAligned(SCur, g.p, g.al, junk)
       IN AfterDelete("delete_aligned", d, g.p, g.al, g, d.recovered)

InitS ==
  /\ sReady = FALSE
  /\ sHeap = [h \in 0 .. 1 |-> SHeapInit]
  /\ sBlocks = {}
  /\ sMem = EmptyMem
  /\ sPtrs = {}
  /\ res = ResInit

\* ================================================================ SpecHeap
\* One PrivateHeap object used through its public interface, one call at a
\* time.  obj holds its fields: live (constructed and not deleted),
\* use_process_heap_, allocation_count_, marked_for_destruction_ and whether
\* HeapDestroy was called on heap_handle_.  op is the last call and pre the
\* fields before it.

PhNone == [live |-> FALSE, uph |-> FALSE, count |-> 0, marked |-> FALSE,
           destroyed |-> FALSE]

\* PrivateHeap::PrivateHeap(use_process_heap).
PhCtor(u) == [live |-> TRUE, uph |-> u, count |-> 0, marked |-> FALSE,
              destroyed |-> FALSE]

\* delete this: ~PrivateHeap calls HeapDestroy(heap_handle_), the object is freed.
PhDelete(o) == [o EXCEPT !.live = FALSE, !.destroyed = TRUE]

\* PrivateHeap::alloc, with ptr what HeapAlloc returned.
PhAlloc(o, ptr) == [o EXCEPT !.count = CountAfterAlloc(@, ptr)]

\* PrivateHeap::free: the condition of delete this after the decrement.
PhFreeDeletes(o) == o.marked /\ ~o.uph /\ o.count = 0

\* PrivateHeap::free, with success what HeapFree returned.
PhFree(o, success) ==
  IF success
  THEN LET d == [o EXCEPT !.count = Wrap(@ - 1)]
       IN IF PhFreeDeletes(d) THEN PhDelete(d) ELSE d
  ELSE o

\* PrivateHeap::mark_for_destruction: the condition of delete this.
PhMarkDeletesEmpty(o) == o.count = 0
PhMarkDeletes(o) == o.count = 0 /\ ~o.uph

\* PrivateHeap::mark_for_destruction.
PhMark(o) == IF PhMarkDeletes(o) THEN PhDelete(o) ELSE [o EXCEPT !.marked = TRUE]

PhCall(op, o) ==
  /\ ph' = [obj |-> o, op |-> op, pre |-> ph.obj]
  /\ UNCHANGED <<cvars, svars>>

\* ---- PrivateHeap(use_process_heap): process_private_heap_ (true) or the
\* object a handle's constructor creates (false).
HCtor ==
  /\ ~ph.obj.live
  /\ \E u \in BOOLEAN : PhCall("ctor", PhCtor(u))

\* ---- alloc(bytes): HeapAlloc returns a block or NULL.
HAlloc ==
  /\ ph.obj.live
  /\ \E ptr \in {0, HeapAllocAddr(1)} :
       /\ ptr # 0 => ph.obj.count < MaxCount
       /\ PhCall("alloc", PhAlloc(ph.obj, ptr))

\* ---- free(ptr): HeapFree succeeds for a block of the heap, and fails.
HFree ==
  /\ ph.obj.live
  /\ \E success \in BOOLEAN :
       /\ success => ph.obj.count > 0
       /\ PhCall("free", PhFree(ph.obj, success))

\* ---- mark_for_destruction().
HMark ==
  /\ ph.obj.live
  /\ PhCall("mark", PhMark(ph.obj))

InitH == ph = [obj |-> PhNone, op |-> "none", pre |-> PhNone]

NextHeap ==
  \/ HCtor
  \/ HAlloc
  \/ HFree
  \/ HMark

Init == InitC /\ InitS /\ InitH

Next ==
  \/ \E t \in Threads : CtorBegin(t) /\ UNCHANGED <<svars, hvars>>
  \/ \E t \in Threads : CtorFail(t) /\ UNCHANGED <<svars, hvars>>
  \/ \E t \in Threads : NewBegin(t) /\ UNCHANGED <<svars, hvars>>
  \/ \E t \in Threads : NewFail(t) /\ UNCHANGED <<svars, hvars>>
  \/ \E t \in Threads : AllocLoadCount(t) /\ UNCHANGED <<svars, hvars>>
  \/ \E t \in Threads : AllocStoreCount(t) /\ UNCHANGED <<svars, hvars>>
  \/ \E t \in Threads, b \in UserBlocks : DeleteBegin(t, b) /\ UNCHANGED <<svars, hvars>>
  \/ \E t \in Threads : FreeLoadCount(t) /\ UNCHANGED <<svars, hvars>>
  \/ \E t \in Threads : FreeStoreCount(t) /\ UNCHANGED <<svars, hvars>>
  \/ \E t \in Threads : FreeCheck(t) /\ UNCHANGED <<svars, hvars>>
  \/ \E t \in Threads : DeleteThis(t) /\ UNCHANGED <<svars, hvars>>
  \/ \E t \in Threads : ExitBegin(t) /\ UNCHANGED <<svars, hvars>>
  \/ \E t \in Threads : MarkSet(t) /\ UNCHANGED <<svars, hvars>>
  \/ ProcessExit /\ UNCHANGED <<svars, hvars>>

Spec == Init /\ [][Next]_vars

\* SpecSeq: the calls of Spec made one at a time: a call begins only when no
\* other call is in progress, so the steps of a call are not interleaved with
\* another thread's.
OneCall == Cardinality({t \in Threads : pc[t] # "idle"}) <= 1

NextSeq ==
  \/ \E t \in Threads : CtorBegin(t) /\ OneCall' /\ UNCHANGED <<svars, hvars>>
  \/ \E t \in Threads : CtorFail(t) /\ OneCall' /\ UNCHANGED <<svars, hvars>>
  \/ \E t \in Threads : NewBegin(t) /\ OneCall' /\ UNCHANGED <<svars, hvars>>
  \/ \E t \in Threads : NewFail(t) /\ OneCall' /\ UNCHANGED <<svars, hvars>>
  \/ \E t \in Threads : AllocLoadCount(t) /\ OneCall' /\ UNCHANGED <<svars, hvars>>
  \/ \E t \in Threads : AllocStoreCount(t) /\ OneCall' /\ UNCHANGED <<svars, hvars>>
  \/ \E t \in Threads, b \in UserBlocks : DeleteBegin(t, b) /\ OneCall' /\ UNCHANGED <<svars, hvars>>
  \/ \E t \in Threads : FreeLoadCount(t) /\ OneCall' /\ UNCHANGED <<svars, hvars>>
  \/ \E t \in Threads : FreeStoreCount(t) /\ OneCall' /\ UNCHANGED <<svars, hvars>>
  \/ \E t \in Threads : FreeCheck(t) /\ OneCall' /\ UNCHANGED <<svars, hvars>>
  \/ \E t \in Threads : DeleteThis(t) /\ OneCall' /\ UNCHANGED <<svars, hvars>>
  \/ \E t \in Threads : ExitBegin(t) /\ OneCall' /\ UNCHANGED <<svars, hvars>>
  \/ \E t \in Threads : MarkSet(t) /\ OneCall' /\ UNCHANGED <<svars, hvars>>
  \/ ProcessExit /\ OneCall' /\ UNCHANGED <<svars, hvars>>

SpecSeq == Init /\ [][NextSeq]_vars

NextAddr ==
  \/ SCtor /\ UNCHANGED <<cvars, hvars>>
  \/ SNew /\ UNCHANGED <<cvars, hvars>>
  \/ SNewAligned /\ UNCHANGED <<cvars, hvars>>
  \/ SDelete /\ UNCHANGED <<cvars, hvars>>
  \/ SDeleteAligned /\ UNCHANGED <<cvars, hvars>>

SpecAddr == Init /\ [][NextAddr]_vars

SpecHeap == Init /\ [][NextHeap]_vars

\* ============================================================ claims, Spec

\* C1: no premature destruction.  No private heap has been destroyed (delete
\* this / HeapDestroy) while a block allocated from it has not yet been freed.
NoPrematureDestruction ==
  \A b \in Blocks :
    (Unfreed(b) /\ blk[b].heap # ProcessHeap) => heap[blk[b].heap].destroys = 0

\* C2: at-most-once destruction.  The destroy path (delete this) has run at
\* most once for every private heap.
AtMostOnceDestruction ==
  \A h \in Threads : heap[h].destroys <= 1

\* C3: no missed destruction.  Once the owner's mark_for_destruction has
\* returned, every block allocated from the heap has been freed and no call is
\* in progress, the heap has been destroyed.
NoMissedDestruction ==
  \A h \in Threads :
    ( /\ phase[h] = "exited"
      /\ \A t \in Threads : pc[t] = "idle"
      /\ \A b \in Blocks : blk[b].heap = h => blk[b].st \in {"none", "released"} )
    => heap[h].destroys >= 1

\* C4: no use of destroyed heap metadata.  No step of any call has read or
\* written a field of a PrivateHeap after its delete this.
NoUseAfterDestroy == ~uaf

\* C5: routing correctness.  Every deallocation works on the heap that served
\* the block, whatever thread issues it and whether or not the allocating
\* thread's handle still exists: PrivateHeap::free runs on that heap, is given
\* the header's start address, and its decrement stores into that heap's
\* allocation_count_ and changes no other heap.
RoutingStep ==
  \A t \in Threads :
    /\ pc'[t] \in {"f_read", "f_write", "f_check"} =>
         /\ BlockAt(cur'[t]) \in Blocks
         /\ cur'[t] = HeapAllocAddr(BlockAt(cur'[t]))
         /\ tgt'[t] = blk'[BlockAt(cur'[t])].heap
    /\ (pc[t] = "f_write" /\ pc'[t] = "f_check") =>
         /\ tgt[t] = blk[BlockAt(cur[t])].heap
         /\ heap'[tgt[t]].count = (tmp[t] - 1) % SizeMod
         /\ \A h \in Heaps : h # tgt[t] => heap'[h] = heap[h]
RoutingCorrect == [][RoutingStep]_vars

\* C5 witness: a thread has decremented the count of another thread's private
\* heap after that thread's handle was destroyed.
RoutingWitness ==
  \E t \in Threads :
    /\ pc[t] = "f_check"
    /\ tgt[t] \notin {ProcessHeap, t}
    /\ phase[tgt[t]] = "exited"
    /\ blk[BlockAt(cur[t])].st = "released"
    /\ heap[tgt[t]].destroys = 0

\* C6: the shared fallback heap is never destroyed: no operation has run
\* ~PrivateHeap (HeapDestroy) on process_private_heap_ or released its region.
FallbackNeverDestroyed ==
  heap[ProcessHeap].destroys = 0 /\ heap[ProcessHeap].region = "live"

\* ======================================================== claims, SpecAddr

\* C7: null deallocation is a no-op.  operator delete(nullptr) and operator
\* delete(nullptr, al), for every al, call no heap function, read no memory,
\* leave every heap as it was and do not fault.
NullDeleteNoOp ==
  (res.op \in {"delete", "delete_aligned"} /\ res.ptr = 0) =>
    /\ ~res.fault
    /\ res.reads = {}
    /\ res.osFree = 0 /\ res.osAlloc = 0
    /\ SCur = res.pre

\* C8: overflow rejection.  An over-aligned operator new whose align + count +
\* sizeof(void*) does not fit the size type throws std::bad_alloc, calls
\* HeapAlloc not at all and leaves every allocation_count_ as it was.
OverflowRejected ==
  ( /\ res.op = "new_aligned"
    /\ res.al > DefaultNewAlignment
    /\ res.al + res.count + PtrSize >= SizeMod )
  => /\ res.threw
     /\ res.osAlloc = 0
     /\ SCur = res.pre

\* C8 witness: align + count fits and adding sizeof(void*) wraps; the call threw.
OverflowWitness ==
  /\ res.op = "new_aligned"
  /\ res.al > DefaultNewAlignment
  /\ res.al + res.count < SizeMod
  /\ res.al + res.count + PtrSize >= SizeMod
  /\ res.threw

RoundTripAligns == {8, 16, 32, 64, 4096}
RoundTripSizes == {0, 1, 4095, 2 ^ 20}

\* C9: alignment round trip.  For the alignments 8, 16, 32, 64, 4096 and the
\* sizes 0, 1, 4095, 1 MiB: the address operator new(count, al) returns is a
\* multiple of al; operator delete(p, al) frees without fault, hands on the
\* address the underlying operator new returned, HeapFree gets the base
\* HeapAlloc returned, on the serving heap; the allocation raised that heap's
\* allocation_count_ by one and the deallocation lowers it by one, so it is
\* back at its value before the allocation.
AlignmentRoundTrip ==
  /\ \A q \in sPtrs :
       (q.al \in RoundTripAligns /\ q.size \in RoundTripSizes) => q.p % q.al = 0
  /\ ( /\ res.op = "delete_aligned"
       /\ res.ptr # 0
       /\ res.al \in RoundTripAligns
       /\ res.g.size \in RoundTripSizes )
     => /\ ~res.fault
        /\ res.ok /\ res.osFree = 1
        /\ res.ptr % res.al = 0
        /\ res.recovered = res.g.unaligned
        /\ res.freedBase = res.g.base
        /\ res.freedHeap = res.g.heap
        /\ sHeap[res.g.heap].count = res.pre.heap[res.g.heap].count - 1
  /\ ( /\ res.op = "new_aligned" /\ ~res.threw
       /\ res.al \in RoundTripAligns
       /\ res.count \in RoundTripSizes )
     => \E q \in sPtrs :
          /\ q.p = res.ret
          /\ sHeap[q.heap].count = res.pre.heap[q.heap].count + 1

\* C9 witness: a 1 MiB block aligned to 4096, moved up from the address the
\* underlying operator new returned, has been freed by the private heap.
RoundTripWitness ==
  /\ res.op = "delete_aligned"
  /\ res.al = 4096 /\ res.g.size = 2 ^ 20
  /\ res.ok
  /\ res.recovered # res.ptr
  /\ res.freedHeap = 1
  /\ sHeap[1].count = res.pre.heap[1].count - 1

\* C10: allocation failure.  When HeapAlloc returns NULL, operator new throws
\* std::bad_alloc instead of returning null, after one HeapAlloc call, and
\* allocation_count_, marked_for_destruction_ and memory (no header written)
\* are what they were.
AllocFailureSignalled ==
  (res.op \in {"new", "new_aligned"} /\ res.osFailed) =>
    /\ res.threw
    /\ res.ret = 0
    /\ res.osAlloc = 1
    /\ SCur = res.pre

\* C10 witness: HeapAlloc failed for the thread's private heap.
AllocFailureWitness ==
  /\ res.op = "new"
  /\ res.osFailed /\ res.threw
  /\ res.pre.ready
  /\ res.count = 1

\* ================================================= claims, Spec (continued)

\* Thread t is between two steps of one bookkeeping sequence of PrivateHeap:
\* after the load of allocation_count_++ or allocation_count_--, after the
\* decrement and before its check or its delete this, after the check of
\* mark_for_destruction and before its store or its delete this.
MidSection(t) == pc[t] \in {"a_write", "f_write", "f_check", "m_set", "d_destroy"}

\* C11: mutual exclusion of heap bookkeeping.  No two threads are at the same
\* time between the steps of a bookkeeping sequence (increment; decrement and
\* check; check and mark) on the same backing heap.
BookkeepingExclusive ==
  \A t, u \in Threads :
    (t # u /\ MidSection(t) /\ MidSection(u)) => tgt[t] # tgt[u]

\* The blocks allocated from heap h and not yet freed.
Outstanding(h) == {b \in Blocks : blk[b].heap = h /\ Unfreed(b)}

\* No allocate or deallocate call on heap h is in progress.
Quiescent(h) == \A t \in Threads : pc[t] = "idle" \/ tgt[t] # h

\* C12: count accuracy.  Whenever no call on a backing heap that has not been
\* destroyed is in progress, its allocation_count_ is the number of blocks
\* allocated from it and not yet freed.
CountAccurate ==
  \A h \in Heaps :
    (heap[h].region = "live" /\ heap[h].destroys = 0 /\ Quiescent(h))
      => heap[h].count = Cardinality(Outstanding(h))

\* C13: fallback heap service.  An allocation begun while the thread's ready_
\* is false (new PrivateHeap() in the handle's constructor included) is served
\* by process_private_heap_; the block's header names process_private_heap_
\* and the increment loads and stores its allocation_count_ and no other's.
\* A deallocation of such a block, by any thread and by delete this, releases
\* it through HeapFree on the process heap and runs PrivateHeap::free on
\* process_private_heap_, whose decrement loads and stores its
\* allocation_count_ and no other's.
FallbackStep ==
  \A t \in Threads :
    /\ (pc[t] = "idle" /\ pc'[t] = "a_read" /\ ~ready(t)) =>
         /\ tgt'[t] = ProcessHeap
         /\ blk'[BlockAt(cur'[t])].heap = ProcessHeap
         /\ blk'[BlockAt(cur'[t])].st = "os"
    /\ (pc[t] = "a_read" /\ pc'[t] = "a_write" /\ blk[BlockAt(cur[t])].heap = ProcessHeap) =>
         /\ tgt[t] = ProcessHeap
         /\ tmp'[t] = heap[ProcessHeap].count
    /\ (pc[t] = "a_write" /\ pc'[t] = "idle" /\ blk[BlockAt(cur[t])].heap = ProcessHeap) =>
         /\ tgt[t] = ProcessHeap
         /\ blk'[BlockAt(cur[t])].hdr = ProcessHeap
         /\ heap'[ProcessHeap].count = (tmp[t] + 1) % SizeMod
         /\ \A h \in Threads : heap'[h] = heap[h] \/ (phase[t] = "ctor" /\ h = t)
    /\ \A b \in Blocks :
         ( /\ blk[b].heap = ProcessHeap /\ blk[b].st = "held"
           /\ blk'[b].st # "held" /\ pc[t] # pc'[t] ) =>
           /\ blk'[b].st = "released"
           /\ pc'[t] = "f_read"
           /\ tgt'[t] = ProcessHeap
           /\ cur'[t] = HeapAllocAddr(b)
    /\ ( /\ pc[t] = "f_read" /\ pc'[t] = "f_write"
         /\ blk[BlockAt(cur[t])].heap = ProcessHeap ) =>
         /\ tgt[t] = ProcessHeap
         /\ tmp'[t] = heap[ProcessHeap].count
    /\ ( /\ pc[t] = "f_write" /\ pc'[t] = "f_check"
         /\ blk[BlockAt(cur[t])].heap = ProcessHeap ) =>
         /\ tgt[t] = ProcessHeap
         /\ heap'[ProcessHeap].count = (tmp[t] - 1) % SizeMod
         /\ \A h \in Threads : heap'[h] = heap[h]
FallbackService == [][FallbackStep]_vars

\* C13 witness: delete this of a private heap has released the PrivateHeap
\* object, allocated in the constructor, into the process heap and decremented
\* process_private_heap_'s allocation_count_.
FallbackWitness ==
  \E t, o \in Threads :
    /\ pc[t] = "f_check" /\ tgt[t] = ProcessHeap
    /\ cur[t] = HeapAllocAddr(MetaBlock(o))
    /\ blk[MetaBlock(o)].st = "released"
    /\ blk[MetaBlock(o)].hdr = ProcessHeap
    /\ heap[o].destroys = 1

\* C14: single allocating thread per private heap.  Threads whose handle is
\* constructed have distinct private heaps; an allocation of thread t is
\* served by process_private_heap_ or by t's own private heap, only the
\* allocating thread writes a block's header, and a header that names a private
\* heap names the heap of the thread that allocated the block, which served it.
SingleAllocatorStep ==
  /\ \A t, u \in Threads :
       (t # u /\ ready(t) /\ ready(u)) => ResolveHeap(t) # ResolveHeap(u)
  /\ \A t \in Threads :
       /\ (pc[t] = "idle" /\ pc'[t] = "a_read") =>
            /\ tgt'[t] \in {ProcessHeap, t}
            /\ blk'[BlockAt(cur'[t])].heap = tgt'[t]
       /\ (pc[t] = "a_write" /\ pc'[t] = "idle") =>
            /\ blk'[BlockAt(cur[t])].hdr \in {ProcessHeap, t}
            /\ blk'[BlockAt(cur[t])].hdr = blk[BlockAt(cur[t])].heap
  /\ \A b \in Blocks :
       /\ blk'[b].hdr # blk[b].hdr =>
            \E t \in Threads :
              /\ b = BlockAt(cur[t])
              /\ \/ pc[t] = "a_write" /\ pc'[t] = "idle"
                 \/ pc[t] = "idle" /\ pc'[t] = "a_read" /\ blk'[b].hdr = NullHeap
       /\ blk'[b].hdr \in Threads => blk'[b].heap = blk'[b].hdr
Held(h) == {b \in Blocks : blk[b].heap = h /\ blk[b].st = "held"}

\* Between calls, for a private heap whose owner's handle has been destroyed:
\* with no block outstanding it has been destroyed, once; with blocks
\* outstanding it is marked and not destroyed, its region is live (the blocks
\* can be freed) and allocation_count_ is their number.
MarkRest ==
  \A h \in Threads :
    (phase[h] = "exited" /\ \A t \in Threads : pc[t] = "idle") =>
      IF Held(h) = {}
      THEN heap[h].destroys = 1 /\ heap[h].region = "destroyed"
      ELSE /\ heap[h].destroys = 0 /\ heap[h].region = "live"
           /\ heap[h].marked
           /\ heap[h].count = Cardinality(Held(h))

\* The steps of mark_for_destruction and of the destruction.
MarkStep ==
  /\ \A t \in Threads :
       \* the check: empty() decides, nothing is changed
       /\ (phase[t] = "ready" /\ phase'[t] = "exited") =>
            /\ heap' = heap /\ blk' = blk
            /\ pc'[t] = IF heap[t].count = 0 THEN "d_destroy" ELSE "m_set"
       \* not empty: the flag is set, nothing else, and the call returns
       /\ (pc[t] = "m_set" /\ pc'[t] # "m_set") =>
            /\ heap' = [heap EXCEPT ![t].marked = TRUE]
            /\ blk' = blk
            /\ pc'[t] = "idle"
       \* empty: the heap is destroyed before the call goes on
       /\ (pc[t] = "d_destroy" /\ pc'[t] # "d_destroy") =>
            /\ heap'[tgt[t]].destroys = 1
            /\ heap'[tgt[t]].region = "destroyed"
  \* a private heap is destroyed only with allocation_count_ zero and no block
  \* outstanding, by the mark_for_destruction or the free that found it so
  /\ \A h \in Threads :
       heap'[h].destroys # heap[h].destroys =>
         /\ heap[h].count = 0 /\ Held(h) = {}
         /\ \E t \in Threads : pc[t] = "d_destroy" /\ tgt[t] = h
         /\ phase'[h] = "exited"

\* C15: mark_for_destruction on a private heap, calls made one at a time.  An
\* empty heap is destroyed within the call; otherwise the call only sets
\* marked_for_destruction_ and returns, the count and the region stay as they
\* are, the outstanding blocks can be freed, and the heap is destroyed by the
\* deallocation that brings the count to zero and by no earlier one.
MarkForDestruction == [][MarkStep /\ MarkRest']_vars

\* C15 witness: a heap marked by its owner's exit while blocks were
\* outstanding has been destroyed by a later deallocation of another thread.
MarkWitness ==
  \E h, t \in Threads :
    /\ t # h
    /\ heap[h].marked /\ heap[h].destroys = 1
    /\ pc[t] = "f_read" /\ cur[t] = HeapAllocAddr(MetaBlock(h))

\* ============================================ claims, SpecAddr (continued)

\* The bytes operator new(count) / operator new(count, al) needs from HeapAlloc,
\* as unbounded integers: the request, the slack and the recovery slot of an
\* over-aligned request, and the header.
ExactOsBytes(count, al) ==
  IF al <= DefaultNewAlignment THEN count + heap_ptr_ofst
  ELSE al + count + PtrSize + heap_ptr_ofst

\* C16: header size arithmetic never wraps.  Every block operator new or
\* operator new(count, al) (its own overflow test passed) has returned was
\* asked of HeapAlloc with count + heap_ptr_ofst() bytes as unbounded integers,
\* never with a wrapped, smaller size.
HeaderSizeExact ==
  \A q \in sPtrs :
    \E k \in sBlocks :
      /\ k.base = q.base
      /\ k.size = ExactOsBytes(q.size, q.al)
      /\ k.size >= heap_ptr_ofst + q.size

\* ================================================= claims, Spec (continued)

\* C17: no allocation into a retired heap.  Once the destructor of a thread's
\* handle has called mark_for_destruction, no allocation of any thread is
\* served by that thread's private heap.
NoAllocationIntoRetiredHeap ==
  \A t \in Threads :
    pc[t] \in {"a_read", "a_write"} =>
      (tgt[t] = ProcessHeap \/ phase[tgt[t]] # "exited")

\* ============================================ claims, SpecAddr (continued)

\* C18: over-aligned block layout.  For every block operator new(count, al)
\* with al above the default has returned: the recovery slot [p - 8, p) lies
\* inside the block HeapAlloc returned, behind the header word that holds the
\* PrivateHeap*, and p + count does not pass the end of that block.
OverAlignedLayout ==
  \A q \in sPtrs :
    q.al > DefaultNewAlignment =>
      \E k \in sBlocks :
        /\ k.base = q.base
        /\ k.base + PtrSize <= q.p - PtrSize
        /\ q.p <= k.base + k.size
        /\ q.p + q.size <= k.base + k.size
        /\ q.p % q.al = 0

\* ======================================================== claims, SpecHeap

\* C19 as stated: mark_for_destruction on the fallback heap leaves every field
\* of it unchanged, whether the heap is empty or not.
MarkFallbackNoOp ==
  (ph.op = "mark" /\ ph.pre.uph) => ph.obj = ph.pre

\* C19 as amended: mark_for_destruction on the fallback heap never destroys
\* it: allocation_count_ and heap_handle_ are unchanged and the object stays
\* alive, whether the heap is empty or not; the call sets
\* marked_for_destruction_, and no later free destroys the heap either.
MarkFallbackKeepsHeap ==
  /\ (ph.op = "mark" /\ ph.pre.uph) =>
       ph.obj = [ph.pre EXCEPT !.marked = TRUE]
  /\ ph.pre.uph => (ph.obj.live /\ ~ph.obj.destroyed)

\* C19 witness: mark_for_destruction was called on the empty fallback heap.
MarkFallbackWitness ==
  /\ ph.op = "mark" /\ ph.pre.uph
  /\ ph.pre.count = 0 /\ ~ph.pre.marked
  /\ ph.obj.live /\ ph.obj.marked
====
